---- MODULE Spec2Model ----
(***************************************************************************)
(* A model of the rename-resolution and metadata-resilience core of        *)
(* MediaUtils: ErrorRecovery.retry_with_backoff (error_recovery.py),       *)
(* CityCache (city_cache.py) and the duplicate / conflict resolvers and    *)
(* the rename executor of FileOperations (file_operations.py), and the     *)
(* coordinate lookup of MediaProcessor (media_processor.py), which uses    *)
(* the first two.                                                          *)
(*                                                                         *)
(* Each subsystem has a specification of its own (SpecRetry, SpecCache,    *)
(* SpecReads, SpecProbe, SpecResolve, SpecConflict, SpecRename,            *)
(* SpecLookup); a specification leaves the variables it does not use at    *)
(* their constructed values.                                               *)
(***************************************************************************)
EXTENDS Integers, Sequences, FiniteSets, TLC

VARIABLES
    \* ---- ErrorRecovery.retry_with_backoff
    max_retries,    \* self.max_retries
    rpc,            \* position in retry_with_backoff: idle, try, sleep, done
    attempt,        \* the loop variable of "for attempt in range(max_retries)"
    last_error,     \* the local last_error
    rresult,        \* the RecoveryResult returned (None before the return)
    trace,          \* what the run did so far: calls of func and sleeps, in order
    hresult,        \* the last call of handle_network_error: arguments and result
    \* ---- CityCache and the files it keeps
    cache,          \* self.cache: the dict, as its entries in insertion order
    max_entries,    \* self.max_entries
    now,            \* the last reading of datetime.now()
    file,           \* the cache file on disk (self.cache_file)
    tmpfile,        \* the temporary file save_cache writes (cache_file.with_suffix('.tmp'))
    backup,         \* the last <stem>_corrupted_<time>.json written
    spc,            \* position in save_cache: idle, begun, tmp_open, tmp_written
    instance,       \* which CityCache instance (run of the program) this is: 1, 2, ...
    lastOp,         \* the last public call that returned, and what it returned
    saveOld,        \* the cache file as it was when the running or interrupted save_cache began
    saved,          \* the last successful save: the instance and what its get_city answered
    ops,            \* how many public calls and restarts were made
    \* ---- FileOperations and the folder it renames in
    dir,            \* the names of the files in the folder
    infos,          \* the batch: the list of FileInfo
    planned,        \* resolve_duplicates_and_conflicts has run over the batch
    ppc,            \* position in process_files / _rename_single_file
    idx,            \* the record process_files is at
    target,         \* final_target_name of the record being renamed
    oplogs,         \* operation_logs
    counts,         \* processed_count, error_count, skipped_count
    external,       \* how many files another process has created or removed
    renames,        \* history: the os.rename calls that went through
    \* ---- MediaProcessor._get_city_from_coords_cached
    lpc,            \* position in the lookup: idle, api, done
    lcoord,         \* the coordinate looked up
    lcached,        \* what get_city answered at the start of the lookup
    lresult,        \* what the lookup returned
    \* ---- the resolvers called on their own
    resolved,       \* resolved_mappings of the last resolve_duplicates_and_conflicts
    cresult,        \* the last call of resolve_file_conflicts: argument and result
    planRaised,     \* the record whose existence check raised during planning (0: none)
    fresult,        \* the last call of find_available_name: argument, result, checks made
    \* ---- ErrorRecovery.check_ffprobe_availability
    ffprobe_available,  \* self.ffprobe_available: "None", "True" or "False"
    probes,         \* the outcomes of the subprocess runs, in order
    fcalls,         \* the calls made and what each returned, in order
    \* ---- CityCache reads
    tolerance,      \* self._coordinate_tolerance
    old_tolerance,  \* the local old_tolerance of the last is_coordinate_cached
    gresult         \* the last read that returned: its arguments and result

retryVars == <<max_retries, rpc, attempt, last_error, rresult, trace, hresult>>
cacheVars == <<cache, max_entries, now, file, tmpfile, backup, spc, instance,
               lastOp, saveOld, saved, ops>>

batchVars == <<dir, infos, planned, ppc, idx, target, oplogs, counts, external,
               renames>>

lookupVars == <<lpc, lcoord, lcached, lresult>>
resolverVars == <<resolved, cresult, planRaised, fresult>>
probeVars == <<ffprobe_available, probes, fcalls>>
readVars == <<tolerance, old_tolerance, gresult>>

vars == <<max_retries, rpc, attempt, last_error, rresult, trace, hresult,
          cache, max_entries, now, file, tmpfile, backup, spc, instance,
          lastOp, saveOld, saved, ops,
          dir, infos, planned, ppc, idx, target, oplogs, counts, external,
          renames, lpc, lcoord, lcached, lresult, resolved, cresult,
          planRaised, fresult, ffprobe_available, probes, fcalls,
          tolerance, old_tolerance, gresult>>

None == [none |-> TRUE]

(***************************************************************************)
(*                                CityCache                                *)
(*                                                                         *)
(* Coordinates are integers in tenths of a micro-degree, so that           *)
(* _coordinate_key, which formats to six decimals, is a real rounding.     *)
(* Timestamps are clock readings: datetime.now().isoformat() strings of    *)
(* one process compare as the instants they denote.                        *)
(***************************************************************************)

\* Bounds of the cache model.
MaxCap == 2          \* largest max_entries an instance is constructed with
MaxClock == 1        \* last clock reading
MaxOps == 4          \* public calls and restarts over a run

\* def __init__(..., max_entries: int = 1000)
DefaultMaxEntries == 1000
\* self._coordinate_tolerance = 0.001 degrees, in tenths of a micro-degree
CoordinateTolerance == 10000

\* The coordinates and labels set_city is called with.  <<0,0>> and <<4,0>>
\* are distinct coordinates with one key; <<10000,0>> is at the tolerance
\* from <<0,0>> and within it from the others; <<-4,0>> formats as
\* "-0.000000,0.000000".
Coords == {<<0, 0>>, <<4, 0>>, <<-4, 0>>, <<10000, 0>>}
\* The label the lookup service gives a coordinate.
CityOf(co) ==
    CASE co = <<0, 0>> -> "Paris"
      [] co = <<4, 0>> -> "Paris 4e"
      [] co = <<-4, 0>> -> "Rome"
      [] OTHER -> "Oslo"

Abs(x) == IF x < 0 THEN -x ELSE x

\* f"{x:.6f}": the sign of x and |x| rounded to a micro-degree (no coordinate
\* of the model lies on a rounding tie).
Format6(x) == [neg |-> x < 0, mag |-> (Abs(x) + 5) \div 10]

\* _coordinate_key
CoordinateKey(lat, lon) == <<Format6(lat), Format6(lon)>>

\* A closeness test that leaves the boundary out.
IsCoordinateCloseStrict(tol, lat1, lon1, lat2, lon2) ==
    /\ Abs(lat1 - lat2) < tol
    /\ Abs(lon1 - lon2) < tol

\* _is_coordinate_close with tol the value of self._coordinate_tolerance:
\* the 1e-10 degrees added to the tolerance are less than one unit of the
\* model.
IsCoordinateCloseWithin(tol, lat1, lon1, lat2, lon2) ==
    /\ Abs(lat1 - lat2) <= tol
    /\ Abs(lon1 - lon2) <= tol

\* _is_coordinate_close
IsCoordinateClose(lat1, lon1, lat2, lon2) ==
    IsCoordinateCloseWithin(tolerance, lat1, lon1, lat2, lon2)

KeysOf(c) == {c[i].key : i \in 1..Len(c)}
IndexOfKey(c, k) == CHOOSE i \in 1..Len(c) : c[i].key = k

\* get_city while self._coordinate_tolerance is tol: the exact key first,
\* then the first entry within tolerance in the dict's iteration order; None
\* when there is none.
GetCityWithin(c, tol, lat, lon) ==
    LET key == CoordinateKey(lat, lon)
        close == {i \in 1..Len(c) :
                     IsCoordinateCloseWithin(tol, lat, lon, c[i].latitude, c[i].longitude)}
    IN  IF key \in KeysOf(c) THEN c[IndexOfKey(c, key)].city
        ELSE IF close # {} THEN c[CHOOSE i \in close : \A j \in close : i <= j].city
        ELSE "None"

\* get_city
GetCity(c, lat, lon) == GetCityWithin(c, tolerance, lat, lon)

\* CacheEntry(latitude=lat, longitude=lon, city=city, timestamp=..., source=source)
Entry(lat, lon, city, ts) ==
    [key |-> CoordinateKey(lat, lon), latitude |-> lat, longitude |-> lon,
     city |-> city, timestamp |-> ts, source |-> "api"]

\* self.cache[key] = entry: a key the dict holds keeps its place, a new key
\* goes last.
DictSet(c, e) ==
    IF e.key \in KeysOf(c)
        THEN [c EXCEPT ![IndexOfKey(c, e.key)] = e]
        ELSE Append(c, e)

\* sorted(self.cache.items(), key=timestamp, reverse=True): the newest first,
\* entries with equal timestamps in the order the dict held them (the sort is
\* stable, also with reverse=True).
RECURSIVE SortedNewestFirst(_, _)
SortedNewestFirst(c, t) ==
    IF t < 0 THEN <<>>
    ELSE SelectSeq(c, LAMBDA e : e.timestamp = t) \o SortedNewestFirst(c, t - 1)

\* A cleanup that keeps one entry too many.
CleanupCacheKeepsOneMore(c, m) ==
    IF Len(c) <= m + 1 THEN c
    ELSE SubSeq(SortedNewestFirst(c, MaxClock + 1), 1, m + 1)

\* _cleanup_cache
CleanupCache(c, m) ==
    IF Len(c) <= m THEN c
    ELSE SubSeq(SortedNewestFirst(c, MaxClock + 1), 1, m)

\* ---- the cache file
MissingFile == [kind |-> "missing", entries |-> <<>>]
InvalidJson == [kind |-> "invalid_json", entries |-> <<>>]   \* "invalid json content {"
NonObject == [kind |-> "non_object", entries |-> <<>>]       \* "[]", "3", "null"
BadEncoding == [kind |-> "bad_encoding", entries |-> <<>>]   \* bytes that are not UTF-8
Unreadable == [kind |-> "unreadable", entries |-> <<>>]      \* open() raises OSError
PartialFile == [kind |-> "partial", entries |-> <<>>]        \* a JSON text cut short

\* asdict(entry) under its key; "shape" tells a value CacheEntry(**entry_data)
\* accepts ("entry") from one it rejects with TypeError ("other").
FileEntry(e) == [key |-> e.key, shape |-> "entry", data |-> e]

\* A save that leaves out the last entry.
SerializeDropsLast(c) ==
    [kind |-> "map",
     entries |-> [i \in 1..(IF Len(c) = 0 THEN 0 ELSE Len(c) - 1) |-> FileEntry(c[i])]]

\* json.dump(data, f) of data[key] = asdict(entry), written completely
Serialize(c) == [kind |-> "map", entries |-> [i \in 1..Len(c) |-> FileEntry(c[i])]]

\* for key, entry_data in data.items(): CacheEntry(**entry_data), skipping the
\* values that raise TypeError or ValueError; the key is the file's key.
RECURSIVE Deserialize(_)
Deserialize(es) ==
    IF es = <<>> THEN <<>>
    ELSE LET fe == Head(es)
             rest == Deserialize(Tail(es))
         IN  IF fe.shape = "entry"
                 THEN <<[fe.data EXCEPT !.key = fe.key]>> \o rest
                 ELSE rest

\* The cache files an earlier run or another program can have left.
OldEntryA == Entry(0, 0, "Paris", 0)
OldEntryB == Entry(10000, 0, "Oslo", 0)
InitFiles ==
    {MissingFile, InvalidJson, NonObject, BadEncoding, Unreadable,
     Serialize(<<OldEntryA>>),
     Serialize(<<OldEntryA, OldEntryB>>),
     [kind |-> "map",
      entries |-> <<FileEntry(OldEntryA),
                    [key |-> OldEntryB.key, shape |-> "other", data |-> OldEntryB]>>]}

NoKey == <<>>
\* The record of a call: its name, what it returned, the key it wrote
\* (set_city) and whether it added a new key to a cache that was full.
Op(op, ret, key, overflow) ==
    [op |-> op, ret |-> ret, key |-> key, overflow |-> overflow]

\* CityCache.__init__
CacheConstructed ==
    /\ cache = <<>>
    /\ now = 0
    /\ tmpfile = MissingFile
    /\ backup = MissingFile
    /\ spc = "idle"
    /\ lastOp = [op |-> "init", ret |-> "None", key |-> NoKey, overflow |-> FALSE]
    /\ saveOld = MissingFile
    /\ saved = [done |-> FALSE, by |-> 0, view |-> <<>>]
    /\ instance = 1
    /\ ops = 0

\* set_city(lat, lon, city) with the clock read once, at or after the last
\* reading.
SetCity ==
    /\ spc = "idle"
    /\ \E co \in Coords, t \in now..(now + 1) :
        LET e == Entry(co[1], co[2], CityOf(co), t) IN
        /\ t <= MaxClock
        /\ now' = t
        /\ cache' = CleanupCache(DictSet(cache, e), max_entries)
        /\ lastOp' = Op("set_city", "None", e.key,
                        e.key \notin KeysOf(cache) /\ Len(cache) >= max_entries)
    /\ ops < MaxOps
    /\ ops' = ops + 1
    /\ UNCHANGED <<max_entries, file, tmpfile, backup, spc, saveOld, saved, instance>>
    /\ UNCHANGED <<retryVars, batchVars, lookupVars, resolverVars, probeVars, readVars>>

\* clear_cache
ClearCache ==
    /\ spc = "idle"
    /\ ops < MaxOps
    /\ ops' = ops + 1
    /\ cache # <<>>
    /\ cache' = <<>>
    /\ lastOp' = Op("clear_cache", "None", NoKey, FALSE)
    /\ UNCHANGED <<max_entries, now, file, tmpfile, backup, spc, saveOld, saved, instance>>
    /\ UNCHANGED <<retryVars, batchVars, lookupVars, resolverVars, probeVars, readVars>>

\* What load_cache does with each kind of file: the cache it leaves, what it
\* returns ("raised": an exception reaches the caller) and whether
\* _backup_corrupted_cache runs.  A missing file returns before self.cache is
\* touched; json.load raises UnicodeDecodeError before "self.cache = {}" and
\* data.items() raises AttributeError after it.
LoadedCache(c) ==
    CASE file.kind \in {"missing", "bad_encoding"} -> c
      [] file.kind = "map" -> Deserialize(file.entries)
      [] OTHER -> <<>>

LoadReturn ==
    CASE file.kind \in {"missing", "map"} -> "True"
      [] file.kind \in {"invalid_json", "partial", "unreadable"} -> "False"
      [] file.kind = "non_object" -> "raised"     \* AttributeError: data.items()
      [] file.kind = "bad_encoding" -> "raised"   \* UnicodeDecodeError: json.load(f)

LoadBacksUp == file.kind \in {"invalid_json", "partial", "unreadable"}

\* A load that truncates to max_entries.
LoadCacheResultTruncating == CleanupCache(LoadedCache(cache), max_entries)

\* A load that drops the file's first entry.
LoadCacheResultDropsFirst ==
    IF LoadedCache(cache) = <<>> THEN <<>> ELSE Tail(LoadedCache(cache))

LoadCacheResult == LoadedCache(cache)

\* load_cache; the copy of the corrupted file may fail (OSError, ignored).
LoadCache ==
    /\ spc = "idle"
    /\ ops < MaxOps
    /\ ops' = ops + 1
    /\ cache' = LoadCacheResult
    /\ lastOp' = Op("load_cache", LoadReturn, NoKey, FALSE)
    /\ \E copied \in BOOLEAN :
          backup' = IF LoadBacksUp /\ copied /\ file.kind # "unreadable"
                       THEN file ELSE backup
    /\ UNCHANGED <<max_entries, now, file, tmpfile, spc, saveOld, saved, instance>>
    /\ UNCHANGED <<retryVars, batchVars, lookupVars, resolverVars, probeVars, readVars>>

\* What get_city answers for every coordinate the cache holds.
SavedView(c) ==
    [i \in 1..Len(c) |->
        [latitude |-> c[i].latitude, longitude |-> c[i].longitude,
         label |-> GetCity(c, c[i].latitude, c[i].longitude)]]

\* A save that opens the cache file itself for writing.
FilesAfterOpenInPlace == [target |-> PartialFile, temp |-> tmpfile]

\* with open(temp_file, 'w'): the temporary file exists and is empty
FilesAfterOpen == [target |-> file, temp |-> PartialFile]

\* json.dump(data, f) and the close of the with block
FilesAfterWrite == [target |-> file, temp |-> Serialize(cache)]

\* temp_file.replace(self.cache_file)
FilesAfterReplace == [target |-> tmpfile, temp |-> MissingFile]

\* save_cache is called: the directory is made, data is built.
SaveBegin ==
    /\ spc = "idle"
    /\ ops < MaxOps
    /\ ops' = ops + 1
    /\ spc' = "begun"
    /\ saveOld' = file
    /\ UNCHANGED <<cache, max_entries, now, file, tmpfile, backup, lastOp, saved, instance>>
    /\ UNCHANGED <<retryVars, batchVars, lookupVars, resolverVars, probeVars, readVars>>

SaveOpenTemp ==
    /\ spc = "begun"
    /\ spc' = "tmp_open"
    /\ file' = FilesAfterOpen.target
    /\ tmpfile' = FilesAfterOpen.temp
    /\ UNCHANGED <<cache, max_entries, now, backup, lastOp, saveOld, saved, ops, instance>>
    /\ UNCHANGED <<retryVars, batchVars, lookupVars, resolverVars, probeVars, readVars>>

SaveWriteTemp ==
    /\ spc = "tmp_open"
    /\ spc' = "tmp_written"
    /\ file' = FilesAfterWrite.target
    /\ tmpfile' = FilesAfterWrite.temp
    /\ UNCHANGED <<cache, max_entries, now, backup, lastOp, saveOld, saved, ops, instance>>
    /\ UNCHANGED <<retryVars, batchVars, lookupVars, resolverVars, probeVars, readVars>>

\* The atomic rename; save_cache returns True.
SaveReplace ==
    /\ spc = "tmp_written"
    /\ spc' = "idle"
    /\ file' = FilesAfterReplace.target
    /\ tmpfile' = FilesAfterReplace.temp
    /\ saved' = [done |-> TRUE, by |-> instance, view |-> SavedView(cache)]
    /\ lastOp' = Op("save_cache", "True", NoKey, FALSE)
    /\ saveOld' = MissingFile
    /\ UNCHANGED <<cache, max_entries, now, backup, ops, instance>>
    /\ UNCHANGED <<retryVars, batchVars, lookupVars, resolverVars, probeVars, readVars>>

\* mkdir, open, write or replace raises IOError / OSError: save_cache returns
\* False and leaves the files as they are.
SaveFails ==
    /\ spc \in {"begun", "tmp_open", "tmp_written"}
    /\ spc' = "idle"
    /\ lastOp' = Op("save_cache", "False", NoKey, FALSE)
    /\ saveOld' = MissingFile
    /\ UNCHANGED <<cache, max_entries, now, file, tmpfile, backup, saved, ops, instance>>
    /\ UNCHANGED <<retryVars, batchVars, lookupVars, resolverVars, probeVars, readVars>>

\* The process dies inside save_cache; the program is started again and
\* constructs its CityCache.
Crash ==
    /\ spc \in {"begun", "tmp_open", "tmp_written"}
    /\ spc' = "idle"
    /\ cache' = <<>>
    /\ instance' = instance + 1
    /\ \E m \in 1..MaxCap : max_entries' = m
    /\ lastOp' = Op("crash", "None", NoKey, FALSE)
    /\ UNCHANGED <<now, file, tmpfile, backup, saveOld, saved, ops>>
    /\ UNCHANGED <<retryVars, batchVars, lookupVars, resolverVars, probeVars, readVars>>

\* The program ends and is started again: a new CityCache on the same file.
NewInstance ==
    /\ spc = "idle"
    /\ ops < MaxOps
    /\ ops' = ops + 1
    /\ cache' = <<>>
    /\ instance' = instance + 1
    /\ \E m \in 1..MaxCap : max_entries' = m
    /\ lastOp' = Op("new", "None", NoKey, FALSE)
    /\ UNCHANGED <<now, file, tmpfile, backup, spc, saveOld, saved>>
    /\ UNCHANGED <<retryVars, batchVars, lookupVars, resolverVars, probeVars, readVars>>

\* ---- claims about CityCache
MalformedKinds == {"invalid_json", "partial", "non_object", "unreadable"}

\* C3: after any public mutation of the cache (set_city, load_cache,
\* clear_cache, save_cache) has returned, the cache holds at most max_entries
\* entries, also right after load_cache has read a file written with a
\* larger max_entries.
C3_NeverOverMaxEntries ==
    lastOp.op \in {"set_city", "load_cache", "clear_cache", "save_cache"} =>
        Len(cache) <= max_entries

\* C4: in a cache built by set_city calls alone, with clock readings that
\* never decrease, the entry the last set_city wrote is in the cache, and a
\* set_city that added a new key to a full cache left exactly max_entries
\* entries.
C4_NewestSurvivesInsertion ==
    (lastOp.op = "set_city" /\ file.kind = "missing") =>
        /\ lastOp.key \in KeysOf(cache)
        /\ lastOp.overflow => Len(cache) = max_entries

\* C5: save_cache never leaves a partial cache file: while it runs, and after
\* a crash inside it, the cache file is the file that was there when it began
\* (the replace is its last step), and a cache file that loaded before the
\* crash loads after it.
C5_SaveIsCrashSafe ==
    /\ file.kind # "partial"
    /\ spc # "idle" => file = saveOld
    /\ lastOp.op = "crash" =>
          /\ file = saveOld
          /\ saveOld.kind \in {"missing", "map"} => LoadReturn = "True"

C5_Witness ==
    /\ lastOp.op = "crash"
    /\ tmpfile.kind = "partial"
    /\ file.kind = "map"
    /\ Len(file.entries) = 2

\* C6: when load_cache returns on a file that save_cache wrote, it has
\* returned True and get_city answers, for every coordinate the saving
\* instance held, the label it answered there.
C6_PersistenceRoundTrip ==
    (lastOp.op = "load_cache" /\ saved.done) =>
        /\ lastOp.ret = "True"
        /\ \A i \in 1..Len(saved.view) :
              GetCity(cache, saved.view[i].latitude, saved.view[i].longitude)
                  = saved.view[i].label

C6_Witness ==
    /\ lastOp.op = "load_cache"
    /\ saved.done
    /\ instance > saved.by
    /\ Len(saved.view) >= 1
    /\ Len(cache) = Len(saved.view)

\* C7: load_cache on a cache file that is not a well-formed map of entries
\* (invalid JSON, valid JSON that is not an object, an unreadable file)
\* returns False and leaves the cache empty, whether or not the backup copy
\* could be made.
C7_MalformedLoadReturnsFalse ==
    (lastOp.op = "load_cache" /\ file.kind \in MalformedKinds) =>
        /\ lastOp.ret = "False"
        /\ cache = <<>>

\* C23: a load_cache that finds no cache file returns True and changes
\* nothing: the entries in memory stay as they were and no file appears.
C23_MissingFileLoadIsNoOp ==
    [][(LoadCache /\ file.kind = "missing") =>
           /\ lastOp'.ret = "True"
           /\ cache' = cache
           /\ file' = file
           /\ tmpfile' = tmpfile
           /\ backup' = backup]_vars

\* an instance that holds entries has loaded from a missing file
C23_Witness ==
    /\ lastOp.op = "load_cache"
    /\ lastOp.ret = "True"
    /\ file.kind = "missing"
    /\ cache # <<>>

\* The entries of a cache as pairs of key and timestamp.
StampsOf(c) == {<<c[i].key, c[i].timestamp>> : i \in 1..Len(c)}

\* C26: eviction is oldest-first by timestamp.  Over a set_city the entries
\* after the call are among those held once the new entry is stored; when
\* these are more than max_entries exactly the excess is removed, and every
\* retained entry has a timestamp at or after that of every evicted one.
C26_EvictionOldestFirst ==
    [][SetCity =>
          LET stored == {p \in StampsOf(cache) : p[1] # lastOp'.key}
                            \cup {<<lastOp'.key, now'>>}
              retained == StampsOf(cache')
              evicted == stored \ retained
          IN  /\ retained \subseteq stored
              /\ Cardinality(evicted) =
                    (IF Cardinality(stored) > max_entries
                        THEN Cardinality(stored) - max_entries ELSE 0)
              /\ \A r \in retained, e \in evicted : r[2] >= e[2]]_vars

\* a set_city has pushed a cache of two entries over its limit and the two
\* entries kept differ in age
C26_Witness ==
    /\ lastOp.op = "set_city"
    /\ lastOp.overflow
    /\ max_entries = 2
    /\ Len(cache) = 2
    /\ cache[1].timestamp # cache[2].timestamp


(***************************************************************************)
(*                    ErrorRecovery.retry_with_backoff                     *)
(***************************************************************************)

\* Largest max_retries the model constructs an ErrorRecovery with.
MaxRetriesBound == 3
\* def __init__(self, logger=None, max_retries: int = 3)
DefaultMaxRetries == 3

\* What the wrapped operation can do on one invocation: return a value or
\* raise an Exception.  An error carries the attempt that raised it, so the
\* errors of different attempts are different objects.  The kinds are the
\* exceptions urlopen and the parsing of the response raise in the lookup:
\* URLError for a timeout, HTTPError with code 404 or 429, ValueError.
Values == {"Paris", ""}
ErrorKinds == {"timeout", "http_404", "http_429", "invalid_response"}

RECURSIVE Pow2(_)
Pow2(n) == IF n = 0 THEN 1 ELSE 2 * Pow2(n - 1)

\* sleep_time = 2 ** attempt
SleepTime(a) == Pow2(a)

\* A retry loop that also sleeps after its final attempt.
SleepsAfterEvery(a) == a < max_retries

\* if attempt < self.max_retries - 1: ... time.sleep(sleep_time)
SleepsAfter(a) == a < max_retries - 1

\* A success result that reports the loop index instead of the attempt count.
SuccessResultIndex(v, a) ==
    [success |-> TRUE, result |-> v, error |-> None, attempts |-> a,
     recovery_method |-> "retry_with_backoff"]

\* RecoveryResult(success=True, result=result, attempts=attempt + 1, ...)
SuccessResult(v, a) ==
    [success |-> TRUE, result |-> v, error |-> None, attempts |-> a + 1,
     recovery_method |-> "retry_with_backoff"]

\* RecoveryResult(success=False, error=last_error, attempts=self.max_retries, ...)
FailureResult(e) ==
    [success |-> FALSE, result |-> None, error |-> e, attempts |-> max_retries,
     recovery_method |-> "retry_with_backoff"]

\* An except branch that keeps the first error instead of the last.
RecordErrorFirst(e) == IF last_error = None THEN e ELSE last_error

\* last_error = e
RecordError(e) == e

\* ErrorRecovery.__init__, no call of retry_with_backoff yet.
RetryConstructed ==
    /\ rpc = "idle"
    /\ attempt = 0
    /\ last_error = None
    /\ rresult = None
    /\ trace = <<>>
    /\ hresult = None


\* retry_with_backoff is called: last_error = None, the loop starts.
RetryBegin ==
    /\ rpc = "idle"
    /\ rpc' = "try"
    /\ attempt' = 0
    /\ last_error' = None
    /\ UNCHANGED <<max_retries, rresult, trace, hresult>>
    /\ UNCHANGED <<cacheVars, batchVars, lookupVars, resolverVars, probeVars, readVars>>

\* One pass of the loop body in which func returns v.
AttemptSucceeds ==
    /\ rpc = "try"
    /\ attempt < max_retries
    /\ \E v \in Values :
        /\ trace' = Append(trace, [ev |-> "call", idx |-> attempt, ok |-> TRUE,
                                   val |-> v])
        /\ rresult' = SuccessResult(v, attempt)
    /\ rpc' = "done"
    /\ UNCHANGED <<max_retries, attempt, last_error, hresult>>
    /\ UNCHANGED <<cacheVars, batchVars, lookupVars, resolverVars, probeVars, readVars>>

\* One pass of the loop body in which func raises: the except branch up to
\* the sleep (or to the next loop test when no sleep follows).
AttemptFails ==
    /\ rpc = "try"
    /\ attempt < max_retries
    /\ \E k \in ErrorKinds :
        LET e == [kind |-> k, at |-> attempt] IN
        /\ trace' = Append(trace, [ev |-> "call", idx |-> attempt, ok |-> FALSE,
                                   val |-> e])
        /\ last_error' = RecordError(e)
    /\ IF SleepsAfter(attempt)
          THEN rpc' = "sleep" /\ attempt' = attempt
          ELSE rpc' = "try" /\ attempt' = attempt + 1
    /\ UNCHANGED <<max_retries, rresult, hresult>>
    /\ UNCHANGED <<cacheVars, batchVars, lookupVars, resolverVars, probeVars, readVars>>

\* time.sleep(sleep_time) returns and the loop goes to its next pass.
Sleep ==
    /\ rpc = "sleep"
    /\ trace' = Append(trace, [ev |-> "sleep", idx |-> attempt, ok |-> FALSE,
                               val |-> SleepTime(attempt)])
    /\ attempt' = attempt + 1
    /\ rpc' = "try"
    /\ UNCHANGED <<max_retries, last_error, rresult, hresult>>
    /\ UNCHANGED <<cacheVars, batchVars, lookupVars, resolverVars, probeVars, readVars>>

\* The loop is exhausted: the failure result is returned.
Exhausted ==
    /\ rpc = "try"
    /\ attempt >= max_retries
    /\ rresult' = FailureResult(last_error)
    /\ rpc' = "done"
    /\ UNCHANGED <<max_retries, attempt, last_error, trace, hresult>>
    /\ UNCHANGED <<cacheVars, batchVars, lookupVars, resolverVars, probeVars, readVars>>

\* ---- helpers over the trace of a run
Calls == SelectSeq(trace, LAMBDA x : x.ev = "call")
Sleeps == SelectSeq(trace, LAMBDA x : x.ev = "sleep")
AllFailed == \A i \in 1..Len(Calls) : ~Calls[i].ok
StrictlyIncreasing(q) == \A i \in 1..Len(q) - 1 : q[i].val < q[i + 1].val

\* C8: a finished run of retry_with_backoff whose every invocation of the
\* operation raised has returned (not raised) a RecoveryResult with
\* success=False, attempts=max_retries and the error of the last invocation,
\* and the operation was invoked exactly max_retries times.
C8_ExhaustionIsData ==
    (rpc = "done" /\ AllFailed) =>
        /\ rresult # None
        /\ rresult.success = FALSE
        /\ rresult.attempts = max_retries
        /\ Len(Calls) = max_retries
        /\ rresult.error = Calls[Len(Calls)].val
        /\ rresult.error.at = max_retries - 1

C8_Witness ==
    /\ rpc = "done" /\ AllFailed /\ max_retries = 3 /\ Len(Calls) = 3
    /\ Calls[1].val.kind # Calls[3].val.kind

\* C9: as soon as one invocation of the operation has returned, the run is
\* over: that invocation is the last one, it is invocation k+1 after k
\* failures, and the result is success=True with the value it returned and
\* attempts=k+1.
C9_SuccessReturnsAtOnce ==
    \A i \in 1..Len(Calls) :
        Calls[i].ok =>
            /\ i = Len(Calls)
            /\ \A j \in 1..(i - 1) : ~Calls[j].ok
            /\ rpc = "done"
            /\ rresult # None
            /\ rresult.success = TRUE
            /\ rresult.result = Calls[i].val
            /\ rresult.attempts = i
            /\ i <= max_retries

C9_Witness ==
    /\ rpc = "done" /\ Len(Calls) = 3 /\ Calls[3].ok /\ ~Calls[1].ok /\ ~Calls[2].ok

\* C10: every sleep directly follows a failed invocation, lasts 2^i for that
\* invocation's zero-based index i, and is directly followed by the next
\* invocation; a finished run ends with an invocation, not a sleep, and with
\* n invocations it has slept exactly n-1 times, each time longer than before.
C10_BackoffSchedule ==
    /\ \A j \in 1..Len(trace) :
          trace[j].ev = "sleep" =>
              /\ j > 1
              /\ trace[j - 1].ev = "call"
              /\ ~trace[j - 1].ok
              /\ trace[j - 1].idx = trace[j].idx
              /\ trace[j].val = Pow2(trace[j].idx)
              /\ j < Len(trace) => trace[j + 1].ev = "call"
    /\ \A j \in 2..Len(trace) :
          trace[j].ev = "call" => trace[j - 1].ev = "sleep"
    /\ rpc = "done" =>
          /\ Len(trace) > 0
          /\ trace[Len(trace)].ev = "call"
          /\ Len(Sleeps) = Len(Calls) - 1
          /\ StrictlyIncreasing(Sleeps)
          /\ \A i \in 1..Len(Sleeps) : Sleeps[i].val = Pow2(i - 1)

C10_Witness ==
    /\ rpc = "done" /\ Len(Calls) = 3 /\ Len(Sleeps) = 2
    /\ Sleeps[1].val = 1 /\ Sleeps[2].val = 2

(***************************************************************************)
(*      handle_network_error and the coordinate lookup pipeline            *)
(*                                                                         *)
(* Python's None is the string "None" where a label is expected, as in     *)
(* GetCity.                                                                *)
(***************************************************************************)

\* The cached_data handle_network_error may be given.
CachedData == {"None", "", "Paris"}

\* A fallback that reports failure when it has cached data.
CachedFallbackFails(cached_data) ==
    [success |-> FALSE, result |-> cached_data, attempts |-> 1,
     recovery_method |-> "cached_fallback"]

\* RecoveryResult(success=True, result=cached_data, attempts=1,
\*                recovery_method="cached_fallback")
CachedFallback(cached_data) ==
    [success |-> TRUE, result |-> cached_data, attempts |-> 1,
     recovery_method |-> "cached_fallback"]

\* A degradation that hands the error text back as the result.
GracefulDegradationErrorText ==
    [success |-> TRUE, result |-> "network error", attempts |-> 1,
     recovery_method |-> "graceful_degradation"]

\* RecoveryResult(success=True, result="", attempts=1,
\*                recovery_method="graceful_degradation")
GracefulDegradation ==
    [success |-> TRUE, result |-> "", attempts |-> 1,
     recovery_method |-> "graceful_degradation"]

\* handle_network_error(error, context, cached_data)
HandleNetworkError(error, cached_data) ==
    IF cached_data # "None" THEN CachedFallback(cached_data)
    ELSE GracefulDegradation

\* handle_gps_api_error(error, api_response)
HandleGpsApiError(error) ==
    [success |-> TRUE, result |-> "", attempts |-> 1,
     recovery_method |-> "continue_without_city"]

\* A call of handle_network_error from anywhere, outside a retry loop.
HandleNetworkErrorCall ==
    /\ rpc \in {"idle", "done"}
    /\ \E k \in ErrorKinds, cached_data \in CachedData :
          hresult' = [error |-> [kind |-> k, at |-> 0], cached_data |-> cached_data,
                      returned |-> HandleNetworkError([kind |-> k, at |-> 0], cached_data)]
    /\ UNCHANGED <<max_retries, rpc, attempt, last_error, rresult, trace>>
    /\ UNCHANGED <<cacheVars, batchVars, lookupVars, resolverVars, probeVars, readVars>>

\* C13: handle_network_error returns success=True for every error: the cached
\* value tagged "cached_fallback" when one was given, else the empty string
\* tagged "graceful_degradation".
C13_NetworkFallbackNeverFails ==
    hresult # None =>
        /\ hresult.returned.success
        /\ hresult.cached_data # "None" =>
               /\ hresult.returned.result = hresult.cached_data
               /\ hresult.returned.recovery_method = "cached_fallback"
        /\ hresult.cached_data = "None" =>
               /\ hresult.returned.result = ""
               /\ hresult.returned.recovery_method = "graceful_degradation"

C13_Witness ==
    /\ hresult # None
    /\ hresult.cached_data = "Paris"
    /\ hresult.returned.result = "Paris"

\* Python truth of a label: None and "" are false.
Truthy(x) == x \notin {"None", ""}

\* x or ""
OrEmpty(x) == IF Truthy(x) THEN x ELSE ""

\* The labels a lookup can return: those of the service and of the cache.
Labels == Values \cup {CityOf(co) : co \in Coords}

\* The coordinates of the files looked up: one the cache file may hold, one
\* within the tolerance of it and beyond that of the third.
LookupCoords == {<<0, 0>>, <<-4, 0>>, <<10000, 0>>}

\* MediaProcessor.__init__ (no lookup yet)
LookupConstructed ==
    /\ lpc = "idle"
    /\ lcoord = <<0, 0>>
    /\ lcached = "None"
    /\ lresult = "None"

\* self.ffprobe_available = None, no probe run yet
ProbeConstructed ==
    /\ ffprobe_available = "None"
    /\ probes = <<>>
    /\ fcalls = <<>>

\* self._coordinate_tolerance = 0.001, no read made yet
ReadsConstructed ==
    /\ tolerance = CoordinateTolerance
    /\ old_tolerance = CoordinateTolerance
    /\ gresult = [fn |-> "None", coord |-> <<0, 0>>, custom |-> FALSE,
                  tol |-> CoordinateTolerance, ret |-> "None", stats |-> None]

\* _get_city_from_coords_cached up to the call of retry_with_backoff:
\* get_city, and the return of a hit.
LookupBegin ==
    /\ lpc \in {"idle", "done"}
    /\ spc = "idle"
    /\ ops < MaxOps
    /\ ops' = ops + 1
    /\ \E co \in LookupCoords :
          LET cached_city == GetCity(cache, co[1], co[2]) IN
          /\ lcoord' = co
          /\ lcached' = cached_city
          /\ IF Truthy(cached_city)
                 THEN lpc' = "done" /\ lresult' = cached_city
                 ELSE lpc' = "api" /\ lresult' = "None"
    /\ rpc' = "idle"
    /\ attempt' = 0
    /\ last_error' = None
    /\ rresult' = None
    /\ trace' = <<>>
    /\ UNCHANGED <<max_retries, hresult>>
    /\ UNCHANGED <<cache, max_entries, now, file, tmpfile, backup, spc, instance,
                   lastOp, saveOld, saved>>
    /\ UNCHANGED <<batchVars, resolverVars, probeVars, readVars>>

\* _get_city_from_coords_with_retry after retry_with_backoff returned r, with
\* the cache c: the result of a success, else the fallback.
CityFromRetry(r, c, co) ==
    IF r.success THEN OrEmpty(r.result)
    ELSE LET cached_city == GetCity(c, co[1], co[2])
             fallback_result == HandleNetworkError(r.error, cached_city)
         IN  IF fallback_result.success THEN OrEmpty(fallback_result.result)
             ELSE IF r.error.kind = "invalid_response"
                      THEN OrEmpty(HandleGpsApiError(r.error).result)
             ELSE ""

\* A pipeline that does not write a found label back.
WritesBackNever(city) == FALSE

\* A pipeline that stores whatever the lookup gave.
WritesBackAlways(city) == TRUE

\* if city: self.city_cache.set_city(lat, lon, city, "nominatim_api")
WritesBack(city) == Truthy(city)

\* The rest of the pipeline once retry_with_backoff has returned: the result
\* or the fallback, the write-back, the return.
LookupReturn ==
    /\ lpc = "api"
    /\ rpc = "done"
    /\ LET city == CityFromRetry(rresult, cache, lcoord) IN
       /\ lresult' = city
       /\ IF WritesBack(city)
              THEN \E t \in now..(now + 1) :
                      LET e == [Entry(lcoord[1], lcoord[2], city, t)
                                    EXCEPT !.source = "nominatim_api"] IN
                      /\ t <= MaxClock
                      /\ now' = t
                      /\ cache' = CleanupCache(DictSet(cache, e), max_entries)
                      /\ lastOp' = Op("set_city", "None", e.key,
                                      e.key \notin KeysOf(cache)
                                          /\ Len(cache) >= max_entries)
              ELSE UNCHANGED <<cache, now, lastOp>>
    /\ lpc' = "done"
    /\ UNCHANGED <<lcoord, lcached>>
    /\ UNCHANGED <<max_entries, file, tmpfile, backup, spc, instance, saveOld,
                   saved, ops>>
    /\ UNCHANGED <<retryVars, batchVars, resolverVars, probeVars, readVars>>

\* C11: a lookup that has returned has returned a string, and the empty
\* string when the cache missed and every attempt of the external lookup
\* failed.
C11_LookupNeverRaises ==
    lpc = "done" =>
        /\ lresult \in Labels
        /\ (lcached = "None" /\ rpc = "done" /\ ~rresult.success) => lresult = ""

C11_Witness ==
    /\ lpc = "done"
    /\ lcached = "None"
    /\ rpc = "done"
    /\ ~rresult.success
    /\ Len(Calls) = max_retries
    /\ lresult = ""

\* C12: a lookup whose get_city gave a label returned that label without a
\* call of the external lookup; a lookup that missed and found a non-empty
\* label has written it back: get_city for the same coordinate now gives it.
C12_CacheThenLookup ==
    lpc = "done" =>
        /\ Truthy(lcached) => (lresult = lcached /\ Calls = <<>>)
        /\ (~Truthy(lcached) /\ rresult.success /\ Truthy(rresult.result)) =>
               GetCity(cache, lcoord[1], lcoord[2]) = lresult

(***************************************************************************)
(*        DuplicateResolver, ConflictResolver and FileOperations           *)
(*                                                                         *)
(* A file name is kept parsed: an optional leading underscore, a stem, the *)
(* suffixes the resolvers have put before the extension ("_001" is         *)
(* <<"d", 1>>, "_c2" is <<"c", 2>>) and the extension.  No stem of the     *)
(* model ends in such a suffix, so two names are the same string exactly   *)
(* when they are the same record: "a_001.jpg" asked for by a record and    *)
(* "a.jpg" given the suffix _001 are one name.                             *)
(***************************************************************************)

\* Bounds of the batch models.
MaxBatch == 3        \* records of a batch that is only planned (SpecResolve)
MaxRenames == 2      \* records of a batch that is planned and renamed (SpecRename)
MaxExternal == 1     \* files another process creates or removes during a run

FileName(us, stem, sfx, ext) ==
    [kind |-> "file", us |-> us, stem |-> stem, sfx |-> sfx, ext |-> ext]

\* The two sentinel names a record may carry instead of a file name:
\* "No metadata" and f"Error: {e}".
NoMetadata == [kind |-> "no_metadata", us |-> FALSE, stem |-> "No metadata",
               sfx |-> <<>>, ext |-> <<>>]
ErrorName == [kind |-> "error", us |-> FALSE, stem |-> "Error: unreadable",
              sfx |-> <<>>, ext |-> <<>>]

\* A test that knows "No metadata" only.
IsSentinelNoMetadataOnly(n) == n.kind = "no_metadata"

\* new_name in ["No metadata"] or new_name.startswith("Error")
IsSentinel(n) == n.kind \in {"no_metadata", "error"}

Jpg(stem, sfx) == FileName(FALSE, stem, sfx, <<"jpg">>)
A == Jpg("a", <<>>)
A_001 == Jpg("a", <<<<"d", 1>>>>)
A_c1 == Jpg("a", <<<<"c", 1>>>>)
A_c2 == Jpg("a", <<<<"c", 2>>>>)
\* original_name of the i-th file of the folder
Original(i) == Jpg(<<"img1", "img2", "img3", "img4">>[i], <<>>)

\* A duplicate suffix that restarts at 1 for every repeat.
AddDuplicateSuffixOne(n, number) == [n EXCEPT !.sfx = Append(@, <<"d", 1>>)]

\* _add_duplicate_suffix: f"{name}_{number:03d}{ext}"
AddDuplicateSuffix(n, number) == [n EXCEPT !.sfx = Append(@, <<"d", number>>)]

\* f"{name}_c{counter}{ext}"
ConflictName(n, counter) == [n EXCEPT !.sfx = Append(@, <<"c", counter>>)]

\* os.path.exists(os.path.join(folder_path, name))
Exists(d, n) == n \in d

\* find_available_name: the while True loop from counter on
RECURSIVE FindAvailableFrom(_, _, _)
FindAvailableFrom(d, n, counter) ==
    IF ~Exists(d, ConflictName(n, counter)) THEN ConflictName(n, counter)
    ELSE FindAvailableFrom(d, n, counter + 1)

\* A search that starts at _c2.
FindAvailableNameFromTwo(d, n) == FindAvailableFrom(d, n, 2)

\* A search that takes _c1 without looking at the folder.
FindAvailableNameFirstSuffix(d, n) == ConflictName(n, 1)

\* find_available_name
FindAvailableName(d, n) == FindAvailableFrom(d, n, 1)

\* The paths find_available_name hands to os.path.exists, in order: the
\* passes of the while True loop from counter on.
RECURSIVE ExistenceChecksFrom(_, _, _)
ExistenceChecksFrom(d, n, counter) ==
    IF ~Exists(d, ConflictName(n, counter)) THEN <<ConflictName(n, counter)>>
    ELSE <<ConflictName(n, counter)>> \o ExistenceChecksFrom(d, n, counter + 1)

\* A conflict resolver that does not look at the folder.
ResolveFileConflictsBlind(d, n) == n

\* resolve_file_conflicts
ResolveFileConflicts(d, n) ==
    IF ~Exists(d, n) THEN n ELSE FindAvailableName(d, n)

\* resolve_duplicates: the loop from the i-th mapping on, with name_counts
\* and the mappings resolved so far.
RECURSIVE ResolveDuplicatesFrom(_, _, _, _)
ResolveDuplicatesFrom(maps, i, name_counts, out) ==
    IF i > Len(maps) THEN out
    ELSE LET orig == maps[i][1]
             new == maps[i][2]
         IN  IF IsSentinel(new)
                 THEN ResolveDuplicatesFrom(maps, i + 1, name_counts,
                                            Append(out, <<orig, new>>))
             ELSE IF new \in DOMAIN name_counts
                 THEN LET c == name_counts[new] + 1 IN
                      ResolveDuplicatesFrom(maps, i + 1,
                          [name_counts EXCEPT ![new] = c],
                          Append(out, <<orig, AddDuplicateSuffix(new, c)>>))
             ELSE ResolveDuplicatesFrom(maps, i + 1, (new :> 0) @@ name_counts,
                                        Append(out, <<orig, new>>))

ResolveDuplicates(maps) == ResolveDuplicatesFrom(maps, 1, <<>>, <<>>)

\* dict(resolved_mappings)[original_name]: the last mapping of that name
ResolvedDict(resolved_mappings, orig) ==
    LET is == {i \in 1..Len(resolved_mappings) : resolved_mappings[i][1] = orig}
    IN  resolved_mappings[CHOOSE i \in is : \A j \in is : j <= i][2]

\* file_mappings = [(info.original_name, info.new_name) for info in file_infos]
FileMappings(fis) == [i \in 1..Len(fis) |-> <<fis[i].original_name, fis[i].new_name>>]

\* resolve_duplicates_and_conflicts
ResolveDuplicatesAndConflicts(d, fis) ==
    LET resolved_mappings == ResolveDuplicates(FileMappings(fis))
    IN  [i \in 1..Len(fis) |->
            LET r == ResolvedDict(resolved_mappings, fis[i].original_name)
            IN  [fis[i] EXCEPT !.final_name =
                    IF ~IsSentinel(r) THEN ResolveFileConflicts(d, r) ELSE r]]

\* FileInfo(original_name=filename, new_name=new_name, final_name=new_name, ...)
FileInfo(i, new, sel) ==
    [original_name |-> Original(i), new_name |-> new, final_name |-> new,
     selected |-> sel]

\* FileOperations.__init__ and an empty folder, before any batch.
BatchConstructed ==
    /\ dir = {}
    /\ infos = <<>>
    /\ planned = FALSE
    /\ ppc = "idle"
    /\ idx = 0
    /\ target = NoMetadata
    /\ oplogs = <<>>
    /\ counts = [processed |-> 0, errors |-> 0, skipped |-> 0]
    /\ external = 0
    /\ renames = <<>>

\* No resolver has been called.
ResolversConstructed ==
    /\ resolved = <<>>
    /\ cresult = None
    /\ planRaised = 0
    /\ fresult = None

\* The GUI's process_files: resolve_duplicates_and_conflicts over the whole
\* batch, against the folder as it is now.
PlanBatch ==
    /\ ~planned
    /\ infos' = ResolveDuplicatesAndConflicts(dir, infos)
    /\ resolved' = ResolveDuplicates(FileMappings(infos))
    /\ planned' = TRUE
    /\ UNCHANGED <<dir, ppc, idx, target, oplogs, counts, external, renames>>
    /\ UNCHANGED <<retryVars, cacheVars, lookupVars, cresult, planRaised, fresult,
                   probeVars, readVars>>

\* resolve_duplicates_and_conflicts when os.path.exists raises for the i-th
\* record: nothing catches the exception, the call raises and the caller's
\* file_infos stay as they were.
PlanBatchRaises ==
    /\ ~planned
    /\ planRaised = 0
    /\ \E i \in 1..Len(infos) :
          /\ ~IsSentinel(ResolvedDict(ResolveDuplicates(FileMappings(infos)),
                                      infos[i].original_name))
          /\ planRaised' = i
    /\ UNCHANGED <<resolved, cresult, fresult>>
    /\ UNCHANGED batchVars
    /\ UNCHANGED <<retryVars, cacheVars, lookupVars, probeVars, readVars>>

\* C25: a client error of the lookup service (HTTP 404) is not retried: the
\* call that raised it is the last invocation of the external lookup in the
\* run of _get_city_from_coords_with_retry.
C25_ClientErrorNotRetried ==
    \A i \in 1..Len(Calls) :
        (~Calls[i].ok /\ Calls[i].val.kind = "http_404") => i = Len(Calls)

\* C29: a lookup that returns the empty label (every attempt failed, or the
\* service gave no city) leaves the cache as it was, and no entry the
\* pipeline wrote ever holds an empty label.
C29_EmptyLookupLeavesCache ==
    /\ [][(lpc # "done" /\ lpc' = "done" /\ lresult' = "") =>
              (cache' = cache /\ now' = now)]_vars
    /\ [](\A i \in 1..Len(cache) :
              cache[i].source = "nominatim_api" => cache[i].city # "")

\* the service answered without a city, over a cache that holds entries
C29_Witness ==
    /\ lpc = "done"
    /\ lresult = ""
    /\ rpc = "done"
    /\ rresult.success
    /\ rresult.result = ""
    /\ cache # <<>>

\* every attempt failed, over a cache that holds entries
C29_WitnessFailed ==
    /\ lpc = "done"
    /\ lresult = ""
    /\ rpc = "done"
    /\ ~rresult.success
    /\ cache # <<>>

\* ---- claims about batch planning
NonSentinel == {i \in 1..Len(infos) : ~IsSentinel(infos[i].new_name)}

\* C1: after resolve_duplicates_and_conflicts, the final names of the records
\* whose desired name is not a sentinel are pairwise distinct.
C1_FinalNamesDistinct ==
    planned =>
        \A i, j \in NonSentinel : i # j => infos[i].final_name # infos[j].final_name

\* ---- claims about resolve_duplicates and resolve_duplicates_and_conflicts
\* The records that ask for "No metadata" or for an "Error..." name, and the
\* others.
Sentinels == {i \in 1..Len(infos) : infos[i].new_name.kind # "file"}
FileNamed == {i \in 1..Len(infos) : infos[i].new_name.kind = "file"}

\* How many records before the i-th ask for the name the i-th asks for.
EarlierSame(i) ==
    Cardinality({j \in 1..(i - 1) : infos[j].new_name = infos[i].new_name})

\* C15: every final name that is not a sentinel names no file of the folder,
\* and is the duplicate-resolved name after conflict resolution: that name
\* when no file has it, else that name with the first free _c<k> on top.
C15_FinalNamesAvoidExistingFiles ==
    planned =>
        \A i \in NonSentinel :
            LET r == resolved[i][2]
                f == infos[i].final_name
            IN  /\ f \notin dir
                /\ IF r \notin dir THEN f = r
                   ELSE \E k \in 1..(Cardinality(dir) + 1) :
                           /\ f = [r EXCEPT !.sfx = r.sfx \o <<<<"c", k>>>>]
                           /\ \A j \in 1..(k - 1) :
                                 [r EXCEPT !.sfx = r.sfx \o <<<<"c", j>>>>] \in dir

\* a.jpg twice with a.jpg, a_c1.jpg and a_001.jpg in the folder: a_c2.jpg
\* and a_001_c1.jpg
C15_Witness ==
    /\ planned
    /\ {A, A_c1, A_001} \subseteq dir
    /\ A_c2 \notin dir
    /\ Len(infos) >= 2
    /\ infos[1].new_name = A /\ infos[2].new_name = A
    /\ infos[1].final_name = A_c2
    /\ infos[2].final_name = Jpg("a", <<<<"d", 1>>, <<"c", 1>>>>)

\* C16: the names resolve_duplicates returns for the records that are not
\* sentinels are pairwise distinct.
C16_ResolvedNamesDistinct ==
    planned =>
        \A i, j \in NonSentinel : i # j => resolved[i][2] # resolved[j][2]

\* C17: resolve_duplicates returns one mapping per input mapping, in the
\* input's order and under the input's original names; a name that is not a
\* sentinel is kept when no earlier record asks for it, else it gets the
\* suffix _NNN before its extension, NNN the number of earlier records that
\* ask for the same name.
C17_ResolveDuplicatesIsReference ==
    planned =>
        /\ Len(resolved) = Len(infos)
        /\ \A i \in 1..Len(infos) : resolved[i][1] = infos[i].original_name
        /\ \A i \in NonSentinel :
              LET n == infos[i].new_name IN
              resolved[i][2] =
                  IF EarlierSame(i) = 0 THEN n
                  ELSE [n EXCEPT !.sfx = n.sfx \o <<<<"d", EarlierSame(i)>>>>]

\* a.jpg, a_c1.jpg, a.jpg: the third is the second a.jpg, whatever stands
\* between them
C17_Witness ==
    /\ planned
    /\ Len(infos) = 3
    /\ infos[1].new_name = A /\ infos[2].new_name = A_c1 /\ infos[3].new_name = A
    /\ resolved[3][2] = A_001
    /\ resolved[2][2] = A_c1

\* The mappings of the records that are not sentinels, in order.
WithoutSentinels(maps) == SelectSeq(maps, LAMBDA m : m[2].kind = "file")

\* C18: a sentinel name goes through resolve_duplicates and through
\* resolve_duplicates_and_conflicts unchanged, and the other records get the
\* names they would get were the sentinel records not in the list.
C18_SentinelsPassThrough ==
    planned =>
        /\ \A i \in Sentinels :
              /\ resolved[i][2] = infos[i].new_name
              /\ infos[i].final_name = infos[i].new_name
        /\ SelectSeq(resolved, LAMBDA m : m[1] \in
                        {infos[i].original_name : i \in FileNamed})
               = ResolveDuplicates(WithoutSentinels(FileMappings(infos)))

\* Two error names, then a.jpg with a.jpg in the folder: the errors stay as
\* they are and a.jpg becomes a_c1.jpg
C18_Witness ==
    /\ planned
    /\ Len(infos) = 3
    /\ A \in dir /\ A_c1 \notin dir
    /\ infos[1].new_name = ErrorName /\ infos[2].new_name = ErrorName
    /\ infos[3].new_name = A
    /\ resolved[2][2] = ErrorName
    /\ infos[2].final_name = ErrorName
    /\ infos[3].final_name = A_c1

\* ---- resolve_file_conflicts called on its own

\* A name without an extension: os.path.splitext gives ("notes", "").
Notes == FileName(FALSE, "notes", <<>>, <<>>)
A_c3 == Jpg("a", <<<<"c", 3>>>>)

\* The names resolve_file_conflicts is asked for and the files the folder
\* may hold: a.jpg with any of _c1, _c2 and _c3, a name that carries a
\* suffix already, a name without extension.
ConflictTargets == {A, A_c1, A_001, Notes}
ConflictExisting == {A, A_c1, A_c2, A_c3, A_001, Notes, ConflictName(Notes, 1)}

\* conflict_resolver.resolve_file_conflicts(folder_path, target_name)
ResolveFileConflictsCall ==
    /\ \E n \in ConflictTargets :
          cresult' = [target_name |-> n, returned |-> ResolveFileConflicts(dir, n)]
    /\ UNCHANGED <<resolved, planRaised, fresult>>
    /\ UNCHANGED <<retryVars, cacheVars, batchVars, lookupVars, probeVars, readVars>>

\* conflict_resolver.find_available_name(folder_path, base_name), with the
\* existence checks it made
FindAvailableNameCall ==
    /\ \E n \in ConflictTargets :
          fresult' = [base_name |-> n,
                      returned |-> FindAvailableName(dir, n),
                      checked |-> ExistenceChecksFrom(dir, n, 1)]
    /\ UNCHANGED <<resolved, planRaised, cresult>>
    /\ UNCHANGED <<retryVars, cacheVars, batchVars, lookupVars, probeVars, readVars>>

\* C14: resolve_file_conflicts returns the name unchanged when no file has
\* it, else the name with _c<k> put after its stem and suffixes and before
\* its extension (at the end when it has none), k the least integer from 1
\* on for which no file has that name.
C14_LowestAvailableSuffix ==
    cresult # None =>
        LET n == cresult.target_name
            r == cresult.returned
        IN  IF n \notin dir THEN r = n
            ELSE \E k \in 1..(Cardinality(dir) + 1) :
                    /\ r = [n EXCEPT !.sfx = n.sfx \o <<<<"c", k>>>>]
                    /\ r \notin dir
                    /\ \A j \in 1..(k - 1) :
                          [n EXCEPT !.sfx = n.sfx \o <<<<"c", j>>>>] \in dir

\* a.jpg, a_c1.jpg and a_c3.jpg exist: a.jpg resolves to a_c2.jpg
C14_Witness ==
    /\ cresult # None
    /\ {A, A_c1, A_c3} \subseteq dir
    /\ cresult.target_name = A
    /\ cresult.returned = A_c2

\* The files of d named <base>_c<k><ext> for some k.
ConflictNamed(d, base) ==
    {f \in d : /\ f.sfx # <<>>
               /\ f.sfx[Len(f.sfx)][1] = "c"
               /\ f = [base EXCEPT !.sfx = base.sfx \o <<f.sfx[Len(f.sfx)]>>]}

\* C30: find_available_name returns after at most n + 1 existence checks,
\* where n is the number of files named <base>_c<k><ext> in the folder, and
\* no file of the folder has the name it returns.
C30_ConflictSearchTerminates ==
    fresult # None =>
        /\ Len(fresult.checked) <= Cardinality(ConflictNamed(dir, fresult.base_name)) + 1
        /\ fresult.returned \notin dir

\* a_c1.jpg, a_c2.jpg and a_c3.jpg exist: the search for a.jpg makes four
\* checks and returns a_c4.jpg
C30_Witness ==
    /\ fresult # None
    /\ fresult.base_name = A
    /\ {A_c1, A_c2, A_c3} \subseteq dir
    /\ Len(fresult.checked) = 4
    /\ fresult.returned = ConflictName(A, 4)

\* ---- process_files and _rename_single_file, one filesystem call per step

\* f"_{file_info.original_name}"
UnderscoreName(n) == [n EXCEPT !.us = TRUE]

\* os.path.splitext(path)[0] followed by a new extension
WithExtension(n, e) == [n EXCEPT !.ext = Append(SubSeq(@, 1, Len(@) - 1), e)]

\* What another process may create in the folder while a batch runs.
ExternalNames == {A, A_c1, WithExtension(A, "xmp")}

\* The four sidecar naming patterns, in the order find_xmp_file tries them.
XmpPatterns(n) ==
    <<WithExtension(n, "xmp"), WithExtension(n, "XMP"),
      [n EXCEPT !.ext = Append(@, "xmp")], [n EXCEPT !.ext = Append(@, "XMP")]>>

\* find_xmp_file: the index of the first pattern that exists, or 0
FindXmpFile(d, n) ==
    LET hits == {p \in 1..4 : Exists(d, XmpPatterns(n)[p])}
    IN  IF hits = {} THEN 0 ELSE CHOOSE p \in hits : \A q \in hits : p <= q

\* selected_files = [f for f in file_infos if f.selected]
Selected == {i \in 1..Len(infos) : infos[i].selected}

\* the selected records after the i-th
SelectedAfter(i) == {j \in Selected : j > i}

OperationLog(orig, final, status, err) ==
    [original_name |-> orig, final_name |-> final, status |-> status,
     error_message |-> err]

\* A batch that stops at the first record that is not renamed.
RecordResultAborting(status, final, err) ==
    /\ oplogs' = Append(oplogs, OperationLog(infos[idx].original_name,
                     IF status = "success" THEN final ELSE infos[idx].original_name,
                     status, err))
    /\ counts' = [counts EXCEPT
                     !.processed = @ + (IF status = "success" THEN 1 ELSE 0),
                     !.skipped = @ + (IF status = "skipped" THEN 1 ELSE 0),
                     !.errors = @ + (IF status = "error" THEN 1 ELSE 0)]
    /\ target' = NoMetadata
    /\ IF SelectedAfter(idx) = {} \/ status # "success"
           THEN /\ ppc' = "done"
                /\ idx' = idx
           ELSE /\ ppc' = "start"
                /\ idx' = CHOOSE j \in SelectedAfter(idx) :
                              \A k \in SelectedAfter(idx) : j <= k

\* process_files, the body of the loop after _rename_single_file returned:
\* one OperationLog and one counter per record, then the next selected record.
RecordResult(status, final, err) ==
    /\ oplogs' = Append(oplogs, OperationLog(infos[idx].original_name,
                     IF status = "success" THEN final ELSE infos[idx].original_name,
                     status, err))
    /\ counts' = [counts EXCEPT
                     !.processed = @ + (IF status = "success" THEN 1 ELSE 0),
                     !.skipped = @ + (IF status = "skipped" THEN 1 ELSE 0),
                     !.errors = @ + (IF status = "error" THEN 1 ELSE 0)]
    /\ target' = NoMetadata
    /\ IF SelectedAfter(idx) = {}
           THEN /\ ppc' = "done"
                /\ idx' = idx
           ELSE /\ ppc' = "start"
                /\ idx' = CHOOSE j \in SelectedAfter(idx) :
                              \A k \in SelectedAfter(idx) : j <= k

\* process_files up to the loop
ProcessBegin ==
    /\ planned
    /\ ppc = "idle"
    /\ IF Selected = {}
           THEN /\ ppc' = "done"
                /\ idx' = idx
           ELSE /\ ppc' = "start"
                /\ idx' = CHOOSE j \in Selected : \A k \in Selected : j <= k
    /\ UNCHANGED <<dir, infos, planned, target, oplogs, counts, external, renames>>
    /\ UNCHANGED <<retryVars, cacheVars, lookupVars, resolverVars, probeVars, readVars>>

\* _rename_single_file up to the source check: the branch on target_name,
\* with the conflict re-check of a normal name.
RenameStart ==
    /\ ppc = "start"
    /\ LET fi == infos[idx]
           target_name == fi.final_name
       IN  IF target_name.kind = "no_metadata"
               THEN IF fi.original_name.us
                        THEN RecordResult("skipped", fi.original_name,
                                          "Already has underscore prefix")
                        ELSE /\ target' = UnderscoreName(fi.original_name)
                             /\ ppc' = "check_source"
                             /\ UNCHANGED <<idx, oplogs, counts>>
           ELSE IF target_name.kind = "error"
               THEN RecordResult("skipped", fi.original_name, target_name.stem)
           ELSE /\ target' = ResolveFileConflicts(dir, target_name)
                /\ ppc' = "check_source"
                /\ UNCHANGED <<idx, oplogs, counts>>
    /\ UNCHANGED <<dir, infos, planned, external, renames>>
    /\ UNCHANGED <<retryVars, cacheVars, lookupVars, resolverVars, probeVars, readVars>>

\* if not os.path.exists(current_path)
RenameCheckSource ==
    /\ ppc = "check_source"
    /\ IF ~Exists(dir, infos[idx].original_name)
           THEN RecordResult("error", infos[idx].original_name, "Source file not found")
           ELSE /\ ppc' = "check_target"
                /\ UNCHANGED <<idx, target, oplogs, counts>>
    /\ UNCHANGED <<dir, infos, planned, external, renames>>
    /\ UNCHANGED <<retryVars, cacheVars, lookupVars, resolverVars, probeVars, readVars>>

\* A rename without the final safety check.
TargetCheckSkipped(d, n) == FALSE

\* The final safety check: os.path.exists(new_path)
TargetCheck(d, n) == Exists(d, n)

RenameCheckTarget ==
    /\ ppc = "check_target"
    /\ IF TargetCheck(dir, target)
           THEN RecordResult("skipped", infos[idx].original_name,
                             "Target file already exists after conflict resolution")
           ELSE /\ ppc' = "rename"
                /\ UNCHANGED <<idx, target, oplogs, counts>>
    /\ UNCHANGED <<dir, infos, planned, external, renames>>
    /\ UNCHANGED <<retryVars, cacheVars, lookupVars, resolverVars, probeVars, readVars>>

\* One os.rename that went through, as the history remembers it.
Renamed(i, src, dst, existed, what) ==
    [record |-> i, src |-> src, dst |-> dst, existed |-> existed, what |-> what]

\* os.rename(current_path, new_path).  Onto an existing file it replaces the
\* file (POSIX) or raises FileExistsError (Windows); both are outcomes.
RenameFile ==
    /\ ppc = "rename"
    /\ LET src == infos[idx].original_name IN
       IF ~Exists(dir, src)
           THEN /\ RecordResult("error", src, "File system error")
                /\ UNCHANGED <<dir, renames>>
       ELSE \E replaces \in BOOLEAN :
               IF Exists(dir, target) /\ ~replaces
                   THEN /\ RecordResult("error", src, "File system error")
                        /\ UNCHANGED <<dir, renames>>
                   ELSE /\ (~Exists(dir, target) => replaces)
                        /\ dir' = (dir \ {src}) \cup {target}
                        /\ renames' = Append(renames,
                               Renamed(idx, src, target, Exists(dir, target), "image"))
                        /\ ppc' = "sidecar"
                        /\ UNCHANGED <<idx, target, oplogs, counts>>
    /\ UNCHANGED <<infos, planned, external>>
    /\ UNCHANGED <<retryVars, cacheVars, lookupVars, resolverVars, probeVars, readVars>>

\* os.rename raises PermissionError or another OSError
RenameRaises ==
    /\ ppc = "rename"
    /\ \E e \in {"Permission denied", "File system error"} :
          RecordResult("error", infos[idx].original_name, e)
    /\ UNCHANGED <<dir, infos, planned, external, renames>>
    /\ UNCHANGED <<retryVars, cacheVars, lookupVars, resolverVars, probeVars, readVars>>

\* rename_xmp_with_image, then the success result of _rename_single_file
RenameSidecar ==
    /\ ppc = "sidecar"
    /\ LET src == infos[idx].original_name
           p == FindXmpFile(dir, src)
       IN  IF p = 0
               THEN UNCHANGED <<dir, renames>>
           ELSE LET xmp_path == XmpPatterns(src)[p]
                    new_xmp_path == XmpPatterns(target)[p]
                IN  \E replaces \in BOOLEAN :
                       IF Exists(dir, new_xmp_path) /\ ~replaces
                           THEN UNCHANGED <<dir, renames>>
                           ELSE /\ (~Exists(dir, new_xmp_path) => replaces)
                                /\ dir' = (dir \ {xmp_path}) \cup {new_xmp_path}
                                /\ renames' = Append(renames,
                                       Renamed(idx, xmp_path, new_xmp_path,
                                               Exists(dir, new_xmp_path), "sidecar"))
    /\ RecordResult("success", target, "None")
    /\ UNCHANGED <<infos, planned, external>>
    /\ UNCHANGED <<retryVars, cacheVars, lookupVars, resolverVars, probeVars, readVars>>

\* Another process creates a file in the folder while the batch runs.
ExternalCreate ==
    /\ planned
    /\ ppc # "done"
    /\ external < MaxExternal
    /\ \E n \in ExternalNames :
          /\ ~Exists(dir, n)
          /\ dir' = dir \cup {n}
    /\ external' = external + 1
    /\ UNCHANGED <<infos, planned, ppc, idx, target, oplogs, counts, renames>>
    /\ UNCHANGED <<retryVars, cacheVars, lookupVars, resolverVars, probeVars, readVars>>

\* Another process removes a file of the batch from the folder.
ExternalRemove ==
    /\ planned
    /\ ppc # "done"
    /\ external < MaxExternal
    /\ \E i \in 1..Len(infos) :
          /\ Exists(dir, infos[i].original_name)
          /\ dir' = dir \ {infos[i].original_name}
    /\ external' = external + 1
    /\ UNCHANGED <<infos, planned, ppc, idx, target, oplogs, counts, renames>>
    /\ UNCHANGED <<retryVars, cacheVars, lookupVars, resolverVars, probeVars, readVars>>

\* ---- claims about renaming

\* C2: no rename of the batch replaces a file that was in the folder at the
\* moment of the rename, and a record whose result is not a success has
\* left the folder as it was, whatever another process creates meanwhile.
C2_NoSilentOverwrite ==
    /\ \A k \in 1..Len(renames) : ~renames[k].existed
    /\ \A l \in 1..Len(oplogs) :
          oplogs[l].status # "success" =>
              \A k \in 1..Len(renames) : renames[k].src # oplogs[l].original_name
                                         \/ renames[k].what # "image"

\* The selected records in input order.
SelectedInOrder == SelectSeq(infos, LAMBDA f : f.selected)

\* C19: when process_files has returned, operation_logs holds one entry per
\* selected record, in input order, and the three counters add up to the
\* number of selected records, whatever the outcome of each record was.
C19_BatchNeverAborts ==
    ppc = "done" =>
        /\ Len(oplogs) = Len(SelectedInOrder)
        /\ \A k \in 1..Len(oplogs) :
              oplogs[k].original_name = SelectedInOrder[k].original_name
        /\ counts.processed + counts.errors + counts.skipped = Len(SelectedInOrder)

\* a batch whose first record failed and whose second was renamed
C19_Witness ==
    /\ ppc = "done"
    /\ Len(oplogs) = 2
    /\ oplogs[1].status = "error"
    /\ oplogs[2].status = "success"

\* The name planning has left a record to be renamed to.
PlannedTarget(fi) ==
    IF fi.final_name.kind = "no_metadata" THEN UnderscoreName(fi.original_name)
    ELSE fi.final_name

\* C20: a file is only ever renamed to the name planned for it, never to
\* another name chosen at rename time, and a record whose target is found to
\* exist by the final check is reported as an error.
C20_LateCollisionIsError ==
    /\ \A k \in 1..Len(renames) :
          renames[k].what = "image" =>
              renames[k].dst = PlannedTarget(infos[renames[k].record])
    /\ \A l \in 1..Len(oplogs) :
          oplogs[l].error_message = "Target file already exists after conflict resolution"
              => oplogs[l].status = "error"

\* C21: in a folder nobody else touches, no rename of a batch (of an image
\* or of its XMP sidecar) replaces a file that was there, so the folder keeps
\* its number of files, and every record logged as a success is in the folder
\* under its logged final name.
C21_RenamesOnlyRename ==
    external = 0 =>
        /\ \A k \in 1..Len(renames) : ~renames[k].existed
        /\ \A l \in 1..Len(oplogs) :
              oplogs[l].status = "success" => oplogs[l].final_name \in dir

\* C22: when the existence check of one record has failed during planning,
\* the batch is planned all the same: every other record has the final name
\* planning gives it.
C22_PlanningFailureIsPerRecord ==
    planRaised # 0 =>
        /\ planned
        /\ \A j \in 1..Len(infos) :
              j # planRaised =>
                  infos[j].final_name =
                      ResolveDuplicatesAndConflicts(dir, infos)[j].final_name

(***************************************************************************)
(*                             Specifications                              *)
(***************************************************************************)

\* ---- the reads of CityCache: get_city, is_coordinate_cached, get_cache_stats
\* The coordinates read: an entry's own, one tolerance away from <<0, 0>> on
\* both axes, two tolerances away on both, and two tolerances away on one.
ReadCoords == {<<10000, 0>>, <<10000, 10000>>, <<20000, 20000>>, <<0, 20000>>}

\* The tolerance arguments of is_coordinate_cached that are not None.
CustomTolerances == {0, 20000}

\* A read that returned: the method, its arguments, the tolerance it scanned
\* with and its result (a label, None, True or False; the dict of
\* get_cache_stats apart).
Read(fn, co, custom, tol, ret, stats) ==
    [fn |-> fn, coord |-> co, custom |-> custom, tol |-> tol, ret |-> ret,
     stats |-> stats]

\* "... is not None"
IsNotNone(v) == IF v # "None" THEN "True" ELSE "False"

\* A call of get_city(lat, lon).
GetCityCall ==
    /\ \E co \in ReadCoords :
          gresult' = Read("get_city", co, FALSE, tolerance,
                          GetCity(cache, co[1], co[2]), None)
    /\ UNCHANGED <<tolerance, old_tolerance>>
    /\ UNCHANGED <<retryVars, cacheVars, batchVars, lookupVars, resolverVars, probeVars>>

\* An is_coordinate_cached that leaves the custom tolerance in place.
RestoredToleranceKeepsCustom(old, custom) == custom

\* self._coordinate_tolerance = old_tolerance
RestoredTolerance(old, custom) == old

\* A call of is_coordinate_cached(lat, lon, tolerance): with a tolerance the
\* scan of get_city runs between the assignment of the custom tolerance and
\* its restoration.
IsCoordinateCachedCall ==
    /\ \E co \in ReadCoords :
          \/ \E tol \in CustomTolerances :
                /\ old_tolerance' = tolerance
                /\ tolerance' = RestoredTolerance(tolerance, tol)
                /\ gresult' = Read("is_coordinate_cached", co, TRUE, tol,
                                   IsNotNone(GetCityWithin(cache, tol, co[1], co[2])), None)
          \/ /\ gresult' = Read("is_coordinate_cached", co, FALSE, tolerance,
                                IsNotNone(GetCity(cache, co[1], co[2])), None)
             /\ UNCHANGED <<tolerance, old_tolerance>>
    /\ UNCHANGED <<retryVars, cacheVars, batchVars, lookupVars, resolverVars, probeVars>>

\* A call of get_cache_stats().
GetCacheStatsCall ==
    /\ gresult' = Read("get_cache_stats", <<0, 0>>, FALSE, tolerance, "None",
                       [total_entries |-> Len(cache),
                        max_entries |-> max_entries,
                        file_exists |-> file.kind # "missing",
                        coordinate_tolerance |-> tolerance])
    /\ UNCHANGED <<tolerance, old_tolerance>>
    /\ UNCHANGED <<retryVars, cacheVars, batchVars, lookupVars, resolverVars, probeVars>>

\* ---- claims about the reads
\* C27: get_city returns the label of the entry at the query's key when
\* there is one, also when other entries are within tolerance; otherwise the
\* label of an entry whose latitude and longitude each differ from the query
\* by at most the tolerance (the boundary included); and None exactly when no
\* entry is within tolerance on both axes.
C27_LookupRule ==
    [][GetCityCall =>
          LET q == gresult'.coord
              exact == {i \in 1..Len(cache) : cache[i].key = CoordinateKey(q[1], q[2])}
              within == {i \in 1..Len(cache) :
                            /\ Abs(q[1] - cache[i].latitude) <= CoordinateTolerance
                            /\ Abs(q[2] - cache[i].longitude) <= CoordinateTolerance}
          IN  /\ exact # {} => \E i \in exact : gresult'.ret = cache[i].city
              /\ (exact = {} /\ within # {}) => \E i \in within : gresult'.ret = cache[i].city
              /\ gresult'.ret = "None" <=> within = {}]_vars

\* a query one tolerance away on both axes from the only entry has returned
\* its label
C27_Witness ==
    /\ gresult.fn = "get_city"
    /\ gresult.coord = <<10000, 10000>>
    /\ Len(cache) = 1
    /\ cache[1].latitude = 0 /\ cache[1].longitude = 0
    /\ gresult.ret = cache[1].city

\* a query two tolerances away on one axis only has returned None
C27_WitnessOneAxis ==
    /\ gresult.fn = "get_city"
    /\ gresult.coord = <<0, 20000>>
    /\ Len(cache) = 1
    /\ cache[1].latitude = 0 /\ cache[1].longitude = 0
    /\ gresult.ret = "None"

\* C28: get_city, is_coordinate_cached (with or without a tolerance of its
\* own) and get_cache_stats leave the entries with their timestamps, the
\* clock, the limit and the default tolerance as they were before the call.
C28_ReadsChangeNothing ==
    [][(GetCityCall \/ IsCoordinateCachedCall \/ GetCacheStatsCall) =>
           /\ cache' = cache
           /\ max_entries' = max_entries
           /\ tolerance' = tolerance
           /\ tolerance' = CoordinateTolerance]_vars

\* an is_coordinate_cached with a tolerance of two thousandths has found an
\* entry the default tolerance does not reach, and the default is back
C28_Witness ==
    /\ gresult.fn = "is_coordinate_cached"
    /\ gresult.custom
    /\ gresult.tol = 20000
    /\ gresult.ret = "True"
    /\ gresult.coord = <<20000, 20000>>
    /\ cache # <<>>
    /\ tolerance = CoordinateTolerance

\* ---- ErrorRecovery.check_ffprobe_availability and handle_ffprobe_unavailable
MaxProbeCalls == 4   \* calls of the two methods on one ErrorRecovery instance

\* What subprocess.run(['ffprobe', '-version'], timeout=5) can do.
ProbeOutcomes == {"exit_0", "exit_nonzero", "timeout", "not_found", "other_error"}

\* returncode == 0 gives True; a non-zero exit and every except branch give False.
ProbeAnswer(outcome) == IF outcome = "exit_0" THEN "True" ELSE "False"

\* A probe that remembers only that ffprobe is there.
StoredAfterProbeForgetsFailure(answer) == IF answer = "True" THEN "True" ELSE "None"

\* self.ffprobe_available = True / self.ffprobe_available = False
StoredAfterProbe(answer) == answer

\* if self.ffprobe_available is not None: return self.ffprobe_available
ProbeRuns == ffprobe_available = "None"

\* What check_ffprobe_availability returns when the subprocess would do outcome.
CheckReturn(outcome) == IF ProbeRuns THEN ProbeAnswer(outcome) ELSE ffprobe_available

\* The body of check_ffprobe_availability: its effect on the instance and on
\* the subprocesses run.
CheckFfprobeAvailability(outcome) ==
    IF ProbeRuns
    THEN /\ probes' = Append(probes, outcome)
         /\ ffprobe_available' = StoredAfterProbe(ProbeAnswer(outcome))
    ELSE /\ probes' = probes
         /\ ffprobe_available' = ffprobe_available

\* The RecoveryResult of handle_ffprobe_unavailable, from what the check answered.
HandleFfprobeUnavailable(available) ==
    IF available # "True"
    THEN [success |-> FALSE, result |-> None, error |-> "ffprobe not available",
          attempts |-> 1, recovery_method |-> "image_only_processing"]
    ELSE [success |-> TRUE, result |-> TRUE, error |-> None,
          attempts |-> 1, recovery_method |-> "None"]

\* A call of check_ffprobe_availability.
CheckFfprobeAvailabilityCall ==
    /\ Len(fcalls) < MaxProbeCalls
    /\ \E outcome \in ProbeOutcomes :
          /\ CheckFfprobeAvailability(outcome)
          /\ fcalls' = Append(fcalls, [fn |-> "check_ffprobe_availability",
                                       ran |-> ProbeRuns,
                                       available |-> CheckReturn(outcome),
                                       ret |-> None])
    /\ UNCHANGED <<retryVars, cacheVars, batchVars, lookupVars, resolverVars, readVars>>

\* A call of handle_ffprobe_unavailable(filepath).
HandleFfprobeUnavailableCall ==
    /\ Len(fcalls) < MaxProbeCalls
    /\ \E outcome \in ProbeOutcomes :
          /\ CheckFfprobeAvailability(outcome)
          /\ fcalls' = Append(fcalls, [fn |-> "handle_ffprobe_unavailable",
                                       ran |-> ProbeRuns,
                                       available |-> CheckReturn(outcome),
                                       ret |-> HandleFfprobeUnavailable(CheckReturn(outcome))])
    /\ UNCHANGED <<retryVars, cacheVars, batchVars, lookupVars, resolverVars, readVars>>

\* ---- claims about the ffprobe availability probe
\* C24: over any sequence of check_ffprobe_availability and
\* handle_ffprobe_unavailable calls on one instance the subprocess is run at
\* most once, by the first call; every call answers what that probe found
\* (True for exit 0, False for a non-zero exit, a timeout, a missing
\* executable or any other error).
C24_ProbeIsOneTime ==
    /\ Len(probes) <= 1
    /\ \A i \in 1..Len(fcalls) :
          /\ fcalls[i].ran <=> (i = 1)
          /\ fcalls[i].available = (IF probes[1] = "exit_0" THEN "True" ELSE "False")
          /\ fcalls[i].fn = "handle_ffprobe_unavailable" =>
                fcalls[i].ret.success = (probes[1] = "exit_0")

\* a probe that timed out, then a check and a handle call answered from the
\* stored False
C24_Witness ==
    /\ Len(fcalls) >= 3
    /\ probes = <<"timeout">>
    /\ fcalls[2].fn = "check_ffprobe_availability"
    /\ fcalls[2].available = "False"
    /\ fcalls[3].fn = "handle_ffprobe_unavailable"
    /\ ~fcalls[3].ret.success

\* ---- SpecRetry: one run of retry_with_backoff
RetryInit ==
    /\ max_retries \in 1..MaxRetriesBound
    /\ RetryConstructed
    /\ CacheConstructed
    /\ max_entries = DefaultMaxEntries
    /\ file = MissingFile
    /\ BatchConstructed
    /\ LookupConstructed
    /\ ResolversConstructed
    /\ ProbeConstructed
    /\ ReadsConstructed

RetryNext ==
    \/ HandleNetworkErrorCall
    \/ RetryBegin
    \/ AttemptSucceeds
    \/ AttemptFails
    \/ Sleep
    \/ Exhausted

SpecRetry == RetryInit /\ [][RetryNext]_vars

\* ---- SpecCache: the public operations of CityCache over program restarts
CacheInit ==
    /\ CacheConstructed
    /\ max_entries \in 1..MaxCap
    /\ file \in InitFiles
    /\ RetryConstructed
    /\ max_retries = DefaultMaxRetries
    /\ BatchConstructed
    /\ LookupConstructed
    /\ ResolversConstructed
    /\ ProbeConstructed
    /\ ReadsConstructed

CacheNext ==
    \/ SetCity
    \/ ClearCache
    \/ LoadCache
    \/ SaveBegin
    \/ SaveOpenTemp
    \/ SaveWriteTemp
    \/ SaveReplace
    \/ SaveFails
    \/ Crash
    \/ NewInstance

SpecCache == CacheInit /\ [][CacheNext]_vars

\* ---- SpecResolve: resolve_duplicates_and_conflicts over a batch and a folder
\* The folder holds the batch's files and any of the names the batch may ask for.
ResolveDesired == {A, A_001, A_c1, NoMetadata, ErrorName}
ResolveExisting == {A, A_001, A_c1, A_c2}

BatchOf(n, desired, existing) ==
    /\ \E new \in [1..n -> desired], sel \in [1..n -> BOOLEAN] :
          infos = [i \in 1..n |-> FileInfo(i, new[i], sel[i])]
    /\ \E d \in SUBSET existing : dir = d \cup {Original(i) : i \in 1..n}
    /\ planned = FALSE
    /\ ppc = "idle"
    /\ idx = 0
    /\ target = NoMetadata
    /\ oplogs = <<>>
    /\ counts = [processed |-> 0, errors |-> 0, skipped |-> 0]
    /\ external = 0
    /\ renames = <<>>

OthersConstructed ==
    /\ RetryConstructed
    /\ max_retries = DefaultMaxRetries
    /\ CacheConstructed
    /\ max_entries = DefaultMaxEntries
    /\ file = MissingFile
    /\ LookupConstructed
    /\ ResolversConstructed
    /\ ProbeConstructed
    /\ ReadsConstructed

ResolveInit ==
    /\ \E n \in 1..MaxBatch : BatchOf(n, ResolveDesired, ResolveExisting)
    /\ OthersConstructed

ResolveNext == PlanBatch

SpecResolve == ResolveInit /\ [][ResolveNext]_vars

\* ---- SpecRename: a batch planned and renamed while another process creates files
RenameDesired == {A, NoMetadata, ErrorName}
RenameExisting == {A, WithExtension(Original(1), "xmp"), WithExtension(A, "xmp")}

RenameInit ==
    /\ \E n \in 1..MaxRenames : BatchOf(n, RenameDesired, RenameExisting)
    /\ OthersConstructed

RenameNext ==
    \/ PlanBatch
    \/ PlanBatchRaises
    \/ ProcessBegin
    \/ RenameStart
    \/ RenameCheckSource
    \/ RenameCheckTarget
    \/ RenameFile
    \/ RenameRaises
    \/ RenameSidecar
    \/ ExternalCreate
    \/ ExternalRemove

SpecRename == RenameInit /\ [][RenameNext]_vars

\* ---- SpecConflict: resolve_file_conflicts against a folder
ConflictInit ==
    /\ dir \in SUBSET ConflictExisting
    /\ infos = <<>>
    /\ planned = FALSE
    /\ ppc = "idle"
    /\ idx = 0
    /\ target = NoMetadata
    /\ oplogs = <<>>
    /\ counts = [processed |-> 0, errors |-> 0, skipped |-> 0]
    /\ external = 0
    /\ renames = <<>>
    /\ OthersConstructed

ConflictNext ==
    \/ ResolveFileConflictsCall
    \/ FindAvailableNameCall

SpecConflict == ConflictInit /\ [][ConflictNext]_vars

\* ---- SpecLookup: lookups through a cache that is loaded and filled
LookupInit ==
    /\ CacheConstructed
    /\ max_entries \in 1..MaxCap
    /\ file \in InitFiles
    /\ RetryConstructed
    /\ max_retries \in 1..MaxRetriesBound
    /\ BatchConstructed
    /\ LookupConstructed
    /\ ResolversConstructed
    /\ ProbeConstructed
    /\ ReadsConstructed

\* The lookup runs on the thread that uses the cache: no other cache call
\* falls between its get_city and its return.  The cache is filled from its
\* file and by the lookups.
LookupLoadCache == lpc # "api" /\ LoadCache
\* api_result = self.error_recovery.retry_with_backoff(api_call)
LookupCallsRetry == lpc = "api" /\ RetryBegin

LookupNext ==
    \/ LookupLoadCache
    \/ LookupBegin
    \/ LookupCallsRetry
    \/ AttemptSucceeds
    \/ AttemptFails
    \/ Sleep
    \/ Exhausted
    \/ LookupReturn

SpecLookup == LookupInit /\ [][LookupNext]_vars

\* ---- SpecProbe: calls of the two ffprobe methods on one ErrorRecovery instance
ProbeInit ==
    /\ BatchConstructed
    /\ OthersConstructed

ProbeNext ==
    \/ CheckFfprobeAvailabilityCall
    \/ HandleFfprobeUnavailableCall

SpecProbe == ProbeInit /\ [][ProbeNext]_vars

\* ---- SpecReads: a cache filled by set_city and read
ReadsInit ==
    /\ CacheConstructed
    /\ max_entries \in 1..MaxCap
    /\ file = MissingFile
    /\ RetryConstructed
    /\ max_retries = DefaultMaxRetries
    /\ BatchConstructed
    /\ LookupConstructed
    /\ ResolversConstructed
    /\ ProbeConstructed
    /\ ReadsConstructed

ReadsNext ==
    \/ SetCity
    \/ GetCityCall
    \/ IsCoordinateCachedCall
    \/ GetCacheStatsCall

SpecReads == ReadsInit /\ [][ReadsNext]_vars

====
